---- MODULE Spec2Model ----
(***************************************************************************)
(* wafreport (src/wafreport.c): read_in_scores folds the lines of stdin    *)
(* into two score histograms, two invalid counters and a record count;     *)
(* print_stats, avg_mean and avg_median report on them.                    *)
(*                                                                         *)
(* A text is a sequence of one-character strings.  An int array of counts  *)
(* indexed by score (int score_count[MAX_SCORE+1], zero-initialised) is    *)
(* held as the function from the indices written so far to their counts;   *)
(* every index outside its DOMAIN holds 0 (see Bucket).                    *)
(***************************************************************************)
EXTENDS Integers, Sequences, FiniteSets, TLC

(***************************************************************************)
(* Program constants.                                                      *)
(***************************************************************************)
MAX_SCORE == 65536
LINE_BUF_SIZE == 24
INT_MAX == 2147483647
EOF == -1

(***************************************************************************)
(* Bounds of the model.                                                    *)
(***************************************************************************)
MaxLines == 2
MaxLen == 3

NL == "\n"

(***************************************************************************)
(* Input lines (without their terminating newline).                        *)
(***************************************************************************)
\* Every text of at most MaxLen characters over a digit, the dash and the blank.
Alphabet == {"5", "-", " "}

ShortLines == UNION {[1..n -> Alphabet] : n \in 0..MaxLen}

Spaces(n) == [i \in 1..n |-> " "]

Zeros(n) == [i \in 1..n |-> "0"]

IntTokens ==
    { <<"7">>, <<"-", "3">>, <<"7", "0", "0", "0", "0">>,
      <<"6", "5", "5", "3", "6">>, <<"6", "5", "5", "3", "7">> }

\* Two tokens with one blank between them.
SpacedLines ==
    { a \o <<" ">> \o b : a \in IntTokens \cup {<<"-">>, <<"a">>},
                          b \in {<<"1">>, <<"-">>, <<"9", "0", "0", "0", "0">>} }

\* Two tokens so far apart that the line fills line_buf exactly, or exceeds it.
LongLines ==
    { a \o Spaces(g) \o <<"1">> : a \in {<<"7">>, <<"-">>, <<"a">>},
                                  g \in {LINE_BUF_SIZE - 3, LINE_BUF_SIZE - 2} }
    \cup { Zeros(LINE_BUF_SIZE - 2) \o <<"5", " ", "7">>,
           Spaces(LINE_BUF_SIZE - 1) \o <<"5", " ", "7">>,
           <<"7">> \o Spaces(LINE_BUF_SIZE - 2) \o <<"-">> }

\* Lines with something else than integers and dashes on them.
OtherLines ==
    { <<"a">>, <<"5", "a">>, <<"a", "5">>, <<"5", " ", "a">>, <<"-", "a">>,
      <<"-", " ", "a">>, <<"5", " ", "7", "a">>, <<"5", " ", "7", " ", "9">> }

Lines == ShortLines \cup SpacedLines \cup LongLines \cup OtherLines

(***************************************************************************)
(* sscanf.                                                                 *)
(***************************************************************************)
IsSpace(c) == c \in {" ", NL}

IsDigit(c) == c \in {"0", "1", "2", "3", "4", "5", "6", "7", "8", "9"}

DigitVal(c) ==
    CASE c = "0" -> 0 [] c = "1" -> 1 [] c = "2" -> 2 [] c = "3" -> 3
      [] c = "4" -> 4 [] c = "5" -> 5 [] c = "6" -> 6 [] c = "7" -> 7
      [] c = "8" -> 8 [] c = "9" -> 9

\* First position >= p of s that holds no white space (Len(s)+1 at the end).
RECURSIVE SkipSpace(_, _)
SkipSpace(s, p) ==
    IF p <= Len(s) /\ IsSpace(s[p]) THEN SkipSpace(s, p + 1) ELSE p

\* First position >= p of s that holds no digit.
RECURSIVE DigitsEnd(_, _)
DigitsEnd(s, p) ==
    IF p <= Len(s) /\ IsDigit(s[p]) THEN DigitsEnd(s, p + 1) ELSE p

\* Value of the decimal digits s[p..q].
RECURSIVE Decimal(_, _, _)
Decimal(s, p, q) ==
    IF q < p THEN 0 ELSE 10 * Decimal(s, p, q - 1) + DigitVal(s[q])

\* One %d conversion at position p: white space is skipped, then an optional
\* sign, then at least one digit.  ok = FALSE is a failed conversion; eof says
\* that the input ended before any character of the number.
ScanInt(s, p) ==
    LET q == SkipSpace(s, p)
        signed == q <= Len(s) /\ s[q] \in {"-", "+"}
        d == IF signed THEN q + 1 ELSE q
        e == DigitsEnd(s, d)
        v == Decimal(s, d, e - 1)
    IN  IF e = d
        THEN [ok |-> FALSE, eof |-> q > Len(s), val |-> 0, next |-> p]
        ELSE [ok |-> TRUE, eof |-> FALSE,
              val |-> IF signed /\ s[q] = "-" THEN 0 - v ELSE v, next |-> e]

\* sscanf(line_buf, "%d%d", &a, &b)
Sscanf_dd(s) ==
    LET c1 == ScanInt(s, 1)
        c2 == ScanInt(s, c1.next)
    IN  IF ~c1.ok THEN [n |-> IF c1.eof THEN EOF ELSE 0, a |-> 0, b |-> 0]
        ELSE IF ~c2.ok THEN [n |-> 1, a |-> c1.val, b |-> 0]
        ELSE [n |-> 2, a |-> c1.val, b |-> c2.val]

\* sscanf(line_buf, "%d", &a)
Sscanf_d(s) ==
    LET c1 == ScanInt(s, 1)
    IN  IF ~c1.ok THEN [n |-> IF c1.eof THEN EOF ELSE 0, a |-> 0]
        ELSE [n |-> 1, a |-> c1.val]

\* sscanf(line_buf, "-%d", &a): the literal '-' must be the first character.
Sscanf_minus_d(s) ==
    IF s = <<>> THEN [n |-> EOF, a |-> 0]
    ELSE IF s[1] # "-" THEN [n |-> 0, a |-> 0]
    ELSE LET c1 == ScanInt(s, 2)
         IN  IF ~c1.ok THEN [n |-> IF c1.eof THEN EOF ELSE 0, a |-> 0]
             ELSE [n |-> 1, a |-> c1.val]


(***************************************************************************)
(* The C integer and floating-point values the program computes.           *)
(***************************************************************************)
Min(a, b) == IF a < b THEN a ELSE b

\* The 32-bit two's complement sum of two ints, computed within the int range.
AddWrap(x, y) ==
    IF x > 0 /\ y > INT_MAX - x THEN (x - INT_MAX - 1) + (y - INT_MAX - 1)
    ELSE IF x < 0 /\ y < (0 - INT_MAX - 1) - x THEN (x + INT_MAX + 1) + (y + INT_MAX + 1)
    ELSE x + y

\* The 32-bit two's complement product of two ints a, b >= 0: a * b when that
\* is at most INT_MAX.
RECURSIVE MulWrap(_, _)
MulWrap(a, b) ==
    IF b = 0 THEN 0
    ELSE LET h == MulWrap(a, b \div 2)
             d == AddWrap(h, h)
         IN  IF b % 2 = 1 THEN AddWrap(d, a) ELSE d

\* A double is held exactly, as the fraction num/den (den > 0), or is the
\* NaN or the infinity that IEEE 754 gives a division by zero.
Real(n, d) == [kind |-> "num", num |-> n, den |-> d]

NaN == [kind |-> "nan", num |-> 0, den |-> 1]

Inf == [kind |-> "inf", num |-> 0, den |-> 1]

\* x / d, for a double x of integral value n and an int d >= 0
Div(n, d) ==
    IF d # 0 THEN Real(n, d)
    ELSE IF n = 0 THEN NaN
    ELSE IF n > 0 THEN Inf ELSE [kind |-> "-inf", num |-> 0, den |-> 1]

\* 100 * x
Times100(x) == IF x.kind = "num" THEN Real(100 * x.num, x.den) ELSE x

\* 100 - x
HundredMinus(x) ==
    IF x.kind = "num" THEN Real(100 * x.den - x.num, x.den)
    ELSE IF x.kind = "inf" THEN [kind |-> "-inf", num |-> 0, den |-> 1]
    ELSE x

(***************************************************************************)
(* Score count arrays.                                                     *)
(***************************************************************************)
NoScores == [i \in {} |-> 0]

\* score_count_array[i]
Bucket(hist, i) == IF i \in DOMAIN hist THEN hist[i] ELSE 0

\* score_count_array[i]++
Incr(hist, i) ==
    [j \in DOMAIN hist \cup {i} |-> Bucket(hist, j) + IF j = i THEN 1 ELSE 0]

\* The indices of the non-zero elements.
NonZero(hist) == {i \in DOMAIN hist : hist[i] # 0}

RECURSIVE SumOver(_, _)
SumOver(hist, S) ==
    IF S = {} THEN 0
    ELSE LET i == CHOOSE j \in S : TRUE
         IN  hist[i] + SumOver(hist, S \ {i})

\* The sum of the elements 0..i.
Running(hist, i) == SumOver(hist, {j \in DOMAIN hist : j <= i})

\* The elements of a finite set of integers in ascending order.
RECURSIVE Ascending(_)
Ascending(S) ==
    IF S = {} THEN <<>>
    ELSE LET m == CHOOSE i \in S : \A j \in S : i <= j
         IN  <<m>> \o Ascending(S \ {m})

(***************************************************************************)
(* read_in_scores.                                                         *)
(***************************************************************************)
\* fgets(line_buf, sizeof(line_buf), stdin) on the unread text of a line (the
\* only newline is its last character): at most sizeof(line_buf) - 1
\* characters are taken and the rest stays unread.
Fgets(stream) ==
    LET n == Min(LINE_BUF_SIZE - 1, Len(stream))
    IN  [buf |-> SubSeq(stream, 1, n), rest |-> SubSeq(stream, n + 1, Len(stream))]

\* Classify with the pattern "-%d" tried before the pattern "%d".
ClassifyOutboundFirst(buf, si, so) ==
    IF Sscanf_dd(buf).n = 2
    THEN [matched |-> TRUE, score_in |-> Sscanf_dd(buf).a,
          score_out |-> Sscanf_dd(buf).b]
    ELSE IF Sscanf_minus_d(buf).n = 1
    THEN [matched |-> TRUE, score_in |-> -1, score_out |-> Sscanf_minus_d(buf).a]
    ELSE IF Sscanf_d(buf).n = 1
    THEN [matched |-> TRUE, score_in |-> Sscanf_d(buf).a, score_out |-> -1]
    ELSE [matched |-> FALSE, score_in |-> si, score_out |-> so]

\* The three patterns tried on line_buf, in the order of the code.  si and so
\* are score_in and score_out as the previous iteration left them.
Classify(buf, si, so) ==
    IF Sscanf_dd(buf).n = 2
    THEN [matched |-> TRUE, score_in |-> Sscanf_dd(buf).a,
          score_out |-> Sscanf_dd(buf).b]
    ELSE IF Sscanf_d(buf).n = 1
    THEN [matched |-> TRUE, score_in |-> Sscanf_d(buf).a, score_out |-> -1]
    ELSE IF Sscanf_minus_d(buf).n = 1
    THEN [matched |-> TRUE, score_in |-> -1, score_out |-> Sscanf_minus_d(buf).a]
    ELSE [matched |-> FALSE, score_in |-> si, score_out |-> so]

\* Store with a score above MAX_SCORE dropped instead of clamped.
StoreDropsOverMax(hist, invalid, score) ==
    IF score < 0 THEN [hist |-> hist, invalid |-> invalid + 1]
    ELSE IF score > MAX_SCORE THEN [hist |-> hist, invalid |-> invalid]
    ELSE [hist |-> Incr(hist, score), invalid |-> invalid]

\* Store without the clamp: a score above MAX_SCORE indexes the array.
StoreNoClamp(hist, invalid, score) ==
    IF score < 0 THEN [hist |-> hist, invalid |-> invalid + 1]
    ELSE [hist |-> Incr(hist, score), invalid |-> invalid]

\* Store the anomaly score that's been seen, for one side.
Store(hist, invalid, score) ==
    IF score < 0 THEN [hist |-> hist, invalid |-> invalid + 1]
    ELSE IF score > MAX_SCORE
    THEN [hist |-> Incr(hist, MAX_SCORE), invalid |-> invalid]
    ELSE [hist |-> Incr(hist, score), invalid |-> invalid]

(***************************************************************************)
(* print_stats, avg_mean, avg_median, digit_width.                         *)
(***************************************************************************)
\* The number of digits required to display n.
RECURSIVE digit_width(_)
digit_width(n) ==
    LET m == IF n < 0 THEN 0 - n ELSE n
    IN  IF m > 9 THEN 1 + digit_width(m \div 10) ELSE 1

\* for (i = MAX_SCORE; i > 0; i--) if (score_count[i] != 0) break;
LargestScore(hist) ==
    LET S == {i \in NonZero(hist) : i > 0}
    IN  IF S = {} THEN 0 ELSE CHOOSE i \in S : \A j \in S : j <= i

\* One printed row: its count, "% of", "Cumulative" and "Outstanding" columns.
\* score = -1 marks the "Empty or invalid" row.
Row(score, n, running_total, scores_read) ==
    LET cumulative == Times100(Div(running_total, scores_read))
    IN  [score |-> score, n |-> n,
         percent |-> Times100(Div(n, scores_read)),
         cumulative |-> cumulative,
         outstanding |-> HundredMinus(cumulative)]

\* The rows of the non-empty scores idx[k..], in the order of idx, with
\* running_total the total before row k.
RECURSIVE ScoreRows(_, _, _, _, _)
ScoreRows(hist, idx, k, running_total, scores_read) ==
    IF k > Len(idx) THEN <<>>
    ELSE LET total == running_total + hist[idx[k]]
         IN  <<Row(idx[k], hist[idx[k]], total, scores_read)>>
             \o ScoreRows(hist, idx, k + 1, total, scores_read)

\* Rows with running_total started at 0 instead of the invalid count.
RowsFromZero(hist, invalid, scores_read) ==
    <<Row(-1, invalid, invalid, scores_read)>>
    \o ScoreRows(hist, Ascending({i \in NonZero(hist) : i <= MAX_SCORE}), 1,
                 0, scores_read)

\* The table of one side: the invalid row, then the non-empty scores from 0
\* to MAX_SCORE.
Rows(hist, invalid, scores_read) ==
    <<Row(-1, invalid, invalid, scores_read)>>
    \o ScoreRows(hist, Ascending({i \in NonZero(hist) : i <= MAX_SCORE}), 1,
                 invalid, scores_read)

\* i * score_count_array[i] is an int product: beyond INT_MAX it is undefined,
\* and a build either wraps it or traps.
UBOutcomes == {"wrap", "trap"}

Overflows(hist) ==
    \E i \in NonZero(hist) : i > 0 /\ hist[i] > INT_MAX \div i

RECURSIVE WeightedSum(_, _)
WeightedSum(hist, S) ==
    IF S = {} THEN 0
    ELSE LET i == CHOOSE j \in S : TRUE
         IN  MulWrap(i, hist[i]) + WeightedSum(hist, S \ {i})

avg_mean(score_count_array, scores_read) ==
    Div(WeightedSum(score_count_array,
                    {i \in NonZero(score_count_array) : i <= MAX_SCORE}),
        scores_read)

\* The value of i when a scan "median += score_count_array[i]; if (median >=
\* threshold) break;" from i = 0 ends: MAX_SCORE + 1 when it never breaks.
FirstReach(hist, threshold) ==
    LET S == {i \in NonZero(hist) : i <= MAX_SCORE /\ Running(hist, i) >= threshold}
    IN  IF Bucket(hist, 0) >= threshold THEN 0
        ELSE IF S = {} THEN MAX_SCORE + 1
        ELSE CHOOSE i \in S : \A j \in S : i <= j

\* The values of i at the end of the scans of avg_median, in order.
MedianScans(score_count_array, scores_read) ==
    IF scores_read % 2 # 0
    THEN <<FirstReach(score_count_array, (scores_read + 1) \div 2)>>
    ELSE <<FirstReach(score_count_array, scores_read \div 2),
           FirstReach(score_count_array, (scores_read \div 2) + 1)>>

avg_median(score_count_array, scores_read) ==
    LET i == MedianScans(score_count_array, scores_read)
    IN  IF scores_read % 2 # 0 THEN Real(i[1], 1)
        ELSE LET lower_value == i[1] IN Real(lower_value + i[2], 2)

\* What print_stats writes for one side.
Section(hist, invalid, scores_read) ==
    [printed |-> TRUE,
     dig_width |-> digit_width(LargestScore(hist)),
     dig_width_scores |-> digit_width(scores_read),
     total |-> scores_read,
     rows |-> Rows(hist, invalid, scores_read),
     mean |-> avg_mean(hist, scores_read),
     median |-> avg_median(hist, scores_read)]

Unprinted ==
    [printed |-> FALSE, dig_width |-> 0, dig_width_scores |-> 0, total |-> 0,
     rows |-> <<>>, mean |-> NaN, median |-> NaN]

(***************************************************************************)
(* The state.                                                              *)
(***************************************************************************)
VARIABLES
    pc,               \* "read": in read_in_scores; "print": before print_stats;
                      \* "done": after it; "aborted": trapped in it
    rest,             \* stdin: the unread text of the line being read
    line_buf, score_in, score_out, count,   \* locals of read_in_scores
    score_count_in, score_count_out, invalid_in, invalid_out,
    scores_read,      \* locals of main
    report,           \* stdout: what print_stats wrote, side by side
    div_by_zero,      \* a division by zero was performed
    line,             \* history: the input line last taken from stdin
    nlines,           \* history: the number of input lines taken from stdin
    matched,          \* history: the last iteration classified line_buf
    prev,             \* history: the counters before the last iteration
    line_hit,         \* history: a buffer of `line` was classified
    classified_lines  \* history: the number of input lines so classified

vars ==
    <<pc, rest, line_buf, score_in, score_out, count, score_count_in,
      score_count_out, invalid_in, invalid_out, scores_read, report,
      div_by_zero, line, nlines, matched, prev, line_hit, classified_lines>>

Counters ==
    [score_count_in |-> score_count_in, score_count_out |-> score_count_out,
     invalid_in |-> invalid_in, invalid_out |-> invalid_out, count |-> count]

\* score_in and score_out are uninitialised in the code and written by every
\* branch that goes on to read them; they start here at 0.
Init ==
    /\ pc = "read"
    /\ rest = <<>>
    /\ line_buf = <<>>
    /\ score_in = 0
    /\ score_out = 0
    /\ count = 0
    /\ score_count_in = NoScores
    /\ score_count_out = NoScores
    /\ invalid_in = 0
    /\ invalid_out = 0
    /\ scores_read = 0
    /\ report = [in |-> Unprinted, out |-> Unprinted]
    /\ div_by_zero = FALSE
    /\ line = <<>>
    /\ nlines = 0
    /\ matched = FALSE
    /\ prev = [score_count_in |-> NoScores, score_count_out |-> NoScores,
               invalid_in |-> 0, invalid_out |-> 0, count |-> 0]
    /\ line_hit = FALSE
    /\ classified_lines = 0

(***************************************************************************)
(* One iteration of the loop of read_in_scores: fgets fills line_buf from  *)
(* the line being read or, at a line boundary, from the next line l of     *)
(* stdin; line_buf is classified and, when it matches, stored and counted. *)
(***************************************************************************)
ReadLoop ==
    /\ pc = "read"
    /\ \E l \in Lines :
        /\ IF rest = <<>> THEN nlines < MaxLines ELSE l = line
        /\ LET got == Fgets(IF rest = <<>> THEN l \o <<NL>> ELSE rest)
               c == Classify(got.buf, score_in, score_out)
               in == Store(score_count_in, invalid_in, c.score_in)
               out == Store(score_count_out, invalid_out, c.score_out)
               first == c.matched /\ (rest = <<>> \/ ~line_hit)
           IN  /\ line_buf' = got.buf
               /\ rest' = got.rest
               /\ line' = l
               /\ nlines' = IF rest = <<>> THEN nlines + 1 ELSE nlines
               /\ score_in' = c.score_in
               /\ score_out' = c.score_out
               /\ matched' = c.matched
               /\ prev' = Counters
               /\ line_hit' = IF rest = <<>> THEN c.matched ELSE (line_hit \/ c.matched)
               /\ classified_lines' = IF first THEN classified_lines + 1
                                      ELSE classified_lines
               /\ IF c.matched
                  THEN /\ score_count_in' = in.hist
                       /\ invalid_in' = in.invalid
                       /\ score_count_out' = out.hist
                       /\ invalid_out' = out.invalid
                       /\ count' = count + 1
                  ELSE UNCHANGED <<score_count_in, invalid_in, score_count_out,
                                   invalid_out, count>>
    /\ UNCHANGED <<pc, scores_read, report, div_by_zero>>

(***************************************************************************)
(* fgets returns NULL at the end of stdin: read_in_scores returns count,   *)
(* which main stores in scores_read.  Every line of stdin ends with a      *)
(* newline, so stdin ends at a line boundary.                              *)
(***************************************************************************)
Eof ==
    /\ pc = "read"
    /\ rest = <<>>
    /\ scores_read' = count
    /\ pc' = "print"
    /\ UNCHANGED <<rest, line_buf, score_in, score_out, count, score_count_in,
                   score_count_out, invalid_in, invalid_out, report, div_by_zero,
                   line, nlines, matched, prev, line_hit, classified_lines>>

(***************************************************************************)
(* print_stats: the inbound table and averages, then the outbound ones.    *)
(* Every percentage and avg_mean divide by scores_read.  An int product    *)
(* that overflows in avg_mean is wrapped or traps, as the build has it; a  *)
(* trap ends the program before the averages of that side are printed.     *)
(***************************************************************************)
PrintStats ==
    /\ pc = "print"
    /\ \E ub \in UBOutcomes :
        LET in == Section(score_count_in, invalid_in, scores_read)
            out == Section(score_count_out, invalid_out, scores_read)
            trap_in == ub = "trap" /\ Overflows(score_count_in)
            trap_out == ub = "trap" /\ Overflows(score_count_out)
            cut(sec) == [sec EXCEPT !.mean = NaN, !.median = NaN]
        IN  /\ report' = [in |-> IF trap_in THEN cut(in) ELSE in,
                          out |-> IF trap_in THEN Unprinted
                                  ELSE IF trap_out THEN cut(out) ELSE out]
            /\ pc' = IF trap_in \/ trap_out THEN "aborted" ELSE "done"
    /\ div_by_zero' = (scores_read = 0)
    /\ UNCHANGED <<rest, line_buf, score_in, score_out, count, score_count_in,
                   score_count_out, invalid_in, invalid_out, scores_read,
                   line, nlines, matched, prev, line_hit, classified_lines>>

Next == ReadLoop \/ Eof \/ PrintStats

Spec == Init /\ [][Next]_vars

(***************************************************************************)
(* print_stats on its own: it starts from an aggregate that read_in_scores *)
(* returns, the buckets and the invalid count of each side adding up to    *)
(* the record count.  Inbound scores are spread over StatScores with the   *)
(* counts of StatCounts; outbound scores are all 0 or all invalid.         *)
(***************************************************************************)
MaxCount == 2
MaxInvalid == 2

\* The least count whose product with MAX_SCORE exceeds INT_MAX.
BigCount == INT_MAX \div MAX_SCORE + 1

StatScores == {0, 5, 10, MAX_SCORE}

StatCounts == 0..MaxCount \cup {BigCount}

InitStats ==
    \E f \in [StatScores -> StatCounts], inv \in 0..MaxInvalid,
       out_invalid \in BOOLEAN :
        LET h == [i \in {j \in StatScores : f[j] # 0} |-> f[i]]
            n == SumOver(h, DOMAIN h) + inv
        IN  /\ pc = "print"
            /\ rest = <<>>
            /\ line_buf = <<>>
            /\ score_in = 0
            /\ score_out = 0
            /\ count = n
            /\ score_count_in = h
            /\ invalid_in = inv
            /\ score_count_out = IF out_invalid \/ n = 0 THEN NoScores
                                 ELSE [i \in {0} |-> n]
            /\ invalid_out = IF out_invalid THEN n ELSE 0
            /\ scores_read = n
            /\ report = [in |-> Unprinted, out |-> Unprinted]
            /\ div_by_zero = FALSE
            /\ line = <<>>
            /\ nlines = n
            /\ matched = FALSE
            /\ prev = [score_count_in |-> NoScores, score_count_out |-> NoScores,
                       invalid_in |-> 0, invalid_out |-> 0, count |-> 0]
            /\ line_hit = FALSE
            /\ classified_lines = n

NextStats == PrintStats

SpecStats == InitStats /\ [][NextStats]_vars

(***************************************************************************)
(* The accepted forms of a line, read off its text: the line is cut at its *)
(* blanks into tokens, and an integer token is an optional sign followed   *)
(* by digits only.                                                         *)
(***************************************************************************)
\* line_buf without the newline that ends it.
Content(buf) ==
    IF buf # <<>> /\ buf[Len(buf)] = NL THEN SubSeq(buf, 1, Len(buf) - 1) ELSE buf

\* The maximal blank-free stretches of s, in order.
RECURSIVE Tokens(_)
Tokens(s) ==
    IF s = <<>> THEN <<>>
    ELSE IF Head(s) = " " THEN Tokens(Tail(s))
    ELSE LET blanks == {i \in 1..Len(s) : s[i] = " "}
             e == IF blanks = {} THEN Len(s) + 1
                  ELSE CHOOSE i \in blanks : \A j \in blanks : i <= j
         IN  <<SubSeq(s, 1, e - 1)>> \o Tokens(SubSeq(s, e, Len(s)))

Unsigned(t) == IF t # <<>> /\ t[1] \in {"-", "+"} THEN Tail(t) ELSE t

IsIntToken(t) ==
    /\ Unsigned(t) # <<>>
    /\ \A i \in 1..Len(Unsigned(t)) : IsDigit(Unsigned(t)[i])

TokenValue(t) ==
    LET u == Unsigned(t)
    IN  IF t[1] = "-" THEN 0 - Decimal(u, 1, Len(u)) ELSE Decimal(u, 1, Len(u))

Dash == <<"-">>

IsBoth(t) == Len(t) = 2 /\ IsIntToken(t[1]) /\ IsIntToken(t[2])

IsInboundOnly(t) ==
    \/ Len(t) = 1 /\ IsIntToken(t[1])
    \/ Len(t) = 2 /\ IsIntToken(t[1]) /\ t[2] = Dash

IsOutboundOnly(t) == Len(t) = 2 /\ t[1] = Dash /\ IsIntToken(t[2])

\* The last iteration of the loop left every counter as it was.
Ignored == ~matched /\ Counters = prev

SumAll(hist) == SumOver(hist, DOMAIN hist)

(***************************************************************************)
(* C1: for each side, the sum of the buckets 0..MAX_SCORE plus the invalid *)
(* counter is the record count, after any number of lines, and the count   *)
(* is what read_in_scores returns.                                         *)
(***************************************************************************)
C1_BucketsPlusInvalidIsTotal ==
    /\ DOMAIN score_count_in \subseteq 0..MAX_SCORE
    /\ DOMAIN score_count_out \subseteq 0..MAX_SCORE
    /\ SumAll(score_count_in) + invalid_in = count
    /\ SumAll(score_count_out) + invalid_out = count
    /\ pc # "read" => scores_read = count

C1_Witness ==
    /\ pc = "print"
    /\ scores_read = 2
    /\ invalid_in = 1 /\ SumAll(score_count_in) = 1
    /\ invalid_out = 1 /\ Bucket(score_count_out, MAX_SCORE) = 1

C3_OtherLinesIgnored ==
    LET t == Tokens(Content(line_buf))
    IN  (nlines > 0 /\ ~IsBoth(t) /\ ~IsInboundOnly(t) /\ ~IsOutboundOnly(t))
            => Ignored

(***************************************************************************)
(* C4: an iteration that classifies its line adds exactly 1 to exactly one *)
(* counter of each side: the invalid counter for a value < 0, the bucket   *)
(* MAX_SCORE for a value > MAX_SCORE, the bucket of the value otherwise;   *)
(* no index outside 0..MAX_SCORE is written.                               *)
(***************************************************************************)
SideStored(hist, phist, invalid, pinvalid, score) ==
    LET target == IF score < 0 THEN -1
                  ELSE IF score > MAX_SCORE THEN MAX_SCORE ELSE score
    IN  /\ DOMAIN hist \subseteq 0..MAX_SCORE
        /\ invalid = pinvalid + (IF target = -1 THEN 1 ELSE 0)
        /\ \A i \in DOMAIN hist \cup DOMAIN phist \cup ({target} \ {-1}) :
               Bucket(hist, i) = Bucket(phist, i) + (IF i = target THEN 1 ELSE 0)

C5_CountIsClassifiedLines == count = classified_lines

(***************************************************************************)
(* Comparisons of the doubles of the report.                               *)
(***************************************************************************)
\* x <= y, for two fractions (over the same denominator in every table).
LessEq(x, y) ==
    /\ x.kind = "num" /\ y.kind = "num"
    /\ IF x.den = y.den THEN x.num <= y.num
       ELSE x.num * y.den <= y.num * x.den

\* x = n exactly, for an integer n.
IsInt(x, n) == x.kind = "num" /\ x.num = n * x.den

Sides ==
    { [hist |-> score_count_in, invalid |-> invalid_in, out |-> report.in],
      [hist |-> score_count_out, invalid |-> invalid_out, out |-> report.out] }

Printed == pc \in {"done", "aborted"}

(***************************************************************************)
(* C6: with a record count > 0, the table of each side starts with the     *)
(* invalid row, goes on with one row per non-empty bucket in ascending     *)
(* score order, its cumulative values never decrease, and the cumulative   *)
(* value of its last row is exactly 100 (the running total is the record   *)
(* count).                                                                 *)
(***************************************************************************)
TableInOrder(side) ==
    LET rows == side.out.rows
    IN  /\ Len(rows) = 1 + Cardinality(NonZero(side.hist))
        /\ rows[1].score = -1
        /\ rows[1].n = side.invalid
        /\ \A k \in 2..Len(rows) :
               /\ rows[k].score \in NonZero(side.hist)
               /\ rows[k].n = side.hist[rows[k].score]
               /\ rows[k - 1].score < rows[k].score
               /\ LessEq(rows[k - 1].cumulative, rows[k].cumulative)
        /\ IsInt(rows[Len(rows)].cumulative, 100)
        /\ rows[Len(rows)].cumulative.num = 100 * scores_read

C6_CumulativeReaches100 ==
    (Printed /\ scores_read > 0) =>
        \A side \in Sides : side.out.printed => TableInOrder(side)

C6_Witness ==
    /\ pc = "done"
    /\ scores_read > 0
    /\ Len(report.in.rows) = 3
    /\ report.in.rows[1].n > 0
    /\ report.in.rows[1].cumulative.num < report.in.rows[2].cumulative.num
    /\ report.in.rows[2].cumulative.num < report.in.rows[3].cumulative.num
    /\ IsInt(report.in.rows[3].cumulative, 100)
    /\ Len(report.out.rows) = 1

(***************************************************************************)
(* C7: with a record count N > 0, avg_median returns, for N odd, the       *)
(* smallest score whose ascending running count reaches (N+1)/2, and for   *)
(* N even (lower + upper)/2, lower the smallest score whose running count  *)
(* reaches N/2 and upper the smallest whose running count reaches N/2 + 1. *)
(* The running count only grows at a non-empty bucket, so the smallest     *)
(* such score is 0 or the index of a non-empty bucket.                     *)
(***************************************************************************)
Reaching(hist, k) ==
    {s \in ({0} \cup NonZero(hist)) \cap 0..MAX_SCORE : Running(hist, s) >= k}

Smallest(S) == CHOOSE s \in S : \A r \in S : s <= r

IsMedian(hist, n, median) ==
    IF n % 2 = 1
    THEN /\ Reaching(hist, (n + 1) \div 2) # {}
         /\ IsInt(median, Smallest(Reaching(hist, (n + 1) \div 2)))
    ELSE /\ Reaching(hist, n \div 2) # {}
         /\ Reaching(hist, n \div 2 + 1) # {}
         /\ median.kind = "num"
         /\ 2 * median.num =
                (Smallest(Reaching(hist, n \div 2))
                 + Smallest(Reaching(hist, n \div 2 + 1))) * median.den

C7_MedianIsOrderStatistic ==
    (pc = "done" /\ scores_read > 0) =>
        \A side \in Sides : IsMedian(side.hist, scores_read, side.out.median)

(***************************************************************************)
(* C8: with a record count > 0, avg_mean returns the sum over the buckets  *)
(* 0..MAX_SCORE of score * count, divided by the record count.             *)
(***************************************************************************)
\* The sum of score * count over S is at most INT_MAX - sofar.
RECURSIVE SumFits(_, _, _)
SumFits(hist, S, sofar) ==
    IF S = {} THEN TRUE
    ELSE LET i == CHOOSE j \in S : TRUE
         IN  /\ i = 0 \/ hist[i] <= (INT_MAX - sofar) \div i
             /\ SumFits(hist, S \ {i}, sofar + i * hist[i])

RECURSIVE ExactSum(_, _)
ExactSum(hist, S) ==
    IF S = {} THEN 0
    ELSE LET i == CHOOSE j \in S : TRUE
         IN  i * hist[i] + ExactSum(hist, S \ {i})

\* v is the sum of score * count; a sum above INT_MAX is above every v that
\* is not.
IsWeightedSum(hist, v) ==
    IF SumFits(hist, NonZero(hist), 0) THEN v = ExactSum(hist, NonZero(hist))
    ELSE v > INT_MAX

C8_MeanIsWeightedAverage ==
    (Printed /\ scores_read > 0) =>
        \A side \in Sides :
            /\ side.out.printed
            /\ side.out.mean.kind = "num"
            /\ side.out.mean.den = scores_read
            /\ IsWeightedSum(side.hist, side.out.mean.num)

(***************************************************************************)
(* C9: when no line of the input is classified, read_in_scores returns 0   *)
(* with every counter and bucket zero, and the report is then produced     *)
(* without any division by zero.                                           *)
(***************************************************************************)
C9_EmptyInputNoDivisionByZero ==
    /\ (pc # "read" /\ classified_lines = 0) =>
           /\ scores_read = 0
           /\ invalid_in = 0 /\ invalid_out = 0
           /\ NonZero(score_count_in) = {} /\ NonZero(score_count_out) = {}
    /\ (Printed /\ scores_read = 0) => ~div_by_zero

(***************************************************************************)
(* C10: with a record count > 0, every scan of avg_median stops at an      *)
(* index of at most MAX_SCORE and the median of each side lies in          *)
(* 0..MAX_SCORE.                                                           *)
(***************************************************************************)
C10_MedianInScoreRange ==
    (pc = "done" /\ scores_read > 0) =>
        \A side \in Sides :
            /\ \A k \in DOMAIN MedianScans(side.hist, scores_read) :
                   MedianScans(side.hist, scores_read)[k] <= MAX_SCORE
            /\ side.out.median.kind = "num"
            /\ 0 <= side.out.median.num
            /\ side.out.median.num <= MAX_SCORE * side.out.median.den

====
